---- MODULE Spec2Model ----
(***************************************************************************)
(* Model of the Express server of brettappscode (server.js): the file      *)
(* store routes (upload, download, read, write, files) over the uploads    *)
(* directory and the AI gateway route with its three upstream helpers.     *)
(*                                                                         *)
(* Strings are sequences of one-character strings.  A few multi-letter     *)
(* tokens ("app", "uploads", "etc", "passwd") stand for runs of ordinary   *)
(* filename characters that contain neither "/" nor ".".                   *)
(***************************************************************************)
EXTENDS Integers, Sequences, FiniteSets, TLC

VARIABLES
    disk,       \* the filesystem: absolute path -> directory or file bytes
    now,        \* the reading of Date.now()
    req,        \* the request whose handler step ran last
    res,        \* the HTTP response sent by that step (NoResponse: none yet)
    accessed,   \* the paths that step handed to fs.* / res.download
    pending,    \* gateway requests awaiting their upstream reply: id -> call
    outbound,   \* number of outbound HTTP POSTs issued so far
    upstream,   \* the upstream reply that step consumed (NoReply: none)
    written,    \* history: requested filename -> the content of the last
                \* successful Write under it not overwritten since
    uploaded,   \* history: generated filename -> the bytes of the last
                \* successful Upload under it not overwritten since
    writes,     \* the Write requests of the current burst of concurrent
                \* requests: received, or handled with status and order
    hits,       \* client IP -> /api requests from it whose handler ran in
                \* the current one-minute window
    chat,       \* the browser's AI chat: the message elements of #aiMessages
                \* and the prompts awaiting their reply
    preview,    \* the browser's editor and live preview with its debounce timer
    dataSheets  \* the server's data sheet store: id -> data

vars == <<disk, now, req, res, accessed, pending, outbound, upstream, written,
          uploaded, writes, hits, chat, preview, dataSheets>>

(***************************************************************************)
(* Bounds of the exploration.                                              *)
(***************************************************************************)
MaxNameLen == 1      \* longest enumerated request filename
MaxContentLen == 2   \* longest enumerated text content (UTF-16 code units)
MaxFiles == 2        \* requests stop creating new files beyond this many
MaxClock == 1        \* largest clock reading explored
MaxPending == 2      \* gateway requests in flight at once
MaxCalls == 3        \* outbound calls explored
MaxExtra == 1        \* requests of one client explored beyond the documented limit
MaxChanges == 2      \* editor changes after the page has loaded
MaxLate == 1         \* milliseconds a due timeout may run late

\* README, Security Considerations: 30 requests/minute per IP
RateLimit == 30

\* the delay of the debounced preview refresh, in milliseconds
DebounceWait == 500

(***************************************************************************)
(* Strings                                                                 *)
(***************************************************************************)
SeqsUpTo(S, n) == UNION { [1..k -> S] : k \in 0..n }

Max(S) == CHOOSE m \in S : \A k \in S : k <= m

\* String.prototype.startsWith
StartsWith(s, p) == Len(s) >= Len(p) /\ SubSeq(s, 1, Len(p)) = p

\* JavaScript values that reach the handlers
Undefined == [t |-> "undefined"]
Null == [t |-> "null"]
Num(n) == [t |-> "number", v |-> n]
Str(s) == [t |-> "string", v |-> s]
True == [t |-> "boolean", v |-> TRUE]
False == [t |-> "boolean", v |-> FALSE]
Array(a) == [t |-> "array", v |-> a]
Function == [t |-> "function"]
IsString(x) == x.t = "string"
\* !x
Falsy(x) ==
    x = Undefined \/ x = Null \/ x = Str(<<>>) \/ x = Num(0) \/ x = False

(***************************************************************************)
(* path.basename, path.join (POSIX, the container is node:18-alpine)       *)
(***************************************************************************)
\* the string without its trailing "/" characters
StripTrailingSlashes(p) ==
    LET keep == { i \in 1..Len(p) : p[i] # "/" }
    IN  IF keep = {} THEN <<>> ELSE SubSeq(p, 1, Max(keep))

\* a mutant of basename: the directories are kept, flattened into the name
basenameFlat(p) == [i \in 1..Len(p) |-> IF p[i] = "/" THEN "_" ELSE p[i]]

\* a mutant of basename: the name is used as sent
basenameIdentity(p) == p

\* path.basename(p): the last segment, trailing separators ignored
basename(p) ==
    LET t == StripTrailingSlashes(p)
        slashes == { i \in 1..Len(t) : t[i] = "/" }
        start == IF slashes = {} THEN 1 ELSE Max(slashes) + 1
    IN  SubSeq(t, start, Len(t))

RECURSIVE Split(_)
\* p.split("/")
Split(p) ==
    IF \A i \in 1..Len(p) : p[i] # "/"
    THEN <<p>>
    ELSE LET i == CHOOSE k \in 1..Len(p) :
                      p[k] = "/" /\ \A j \in 1..(k - 1) : p[j] # "/"
         IN  <<SubSeq(p, 1, i - 1)>> \o Split(SubSeq(p, i + 1, Len(p)))

RECURSIVE ResolveSegments(_, _)
\* normalizeString of an absolute path: "" and "." vanish, ".." pops
ResolveSegments(segs, stack) ==
    IF segs = <<>> THEN stack
    ELSE LET h == Head(segs)
         IN  IF h = <<>> \/ h = <<".">>
             THEN ResolveSegments(Tail(segs), stack)
             ELSE IF h = <<".", ".">>
             THEN ResolveSegments(Tail(segs),
                      IF stack = <<>> THEN <<>>
                      ELSE SubSeq(stack, 1, Len(stack) - 1))
             ELSE ResolveSegments(Tail(segs), Append(stack, h))

RECURSIVE JoinSegments(_)
JoinSegments(segs) ==
    IF segs = <<>> THEN <<>>
    ELSE <<"/">> \o Head(segs) \o JoinSegments(Tail(segs))

\* path.normalize of an absolute path
Normalize(p) ==
    LET body == JoinSegments(ResolveSegments(Split(p), <<>>))
    IN  IF body = <<>> THEN <<"/">>
        ELSE IF p[Len(p)] = "/" THEN body \o <<"/">> ELSE body

RECURSIVE JoinArgs(_)
\* the non-empty arguments of path.join, joined by "/"
JoinArgs(parts) ==
    IF parts = <<>> THEN <<>>
    ELSE LET rest == JoinArgs(Tail(parts))
         IN  IF Head(parts) = <<>> THEN rest
             ELSE IF rest = <<>> THEN Head(parts)
             ELSE Head(parts) \o <<"/">> \o rest

\* path.join(...parts): empty arguments are skipped, the result is normalized
PathJoin(parts) == Normalize(JoinArgs(parts))

\* __dirname
Dirname == <<"/", "app">>
\* path.join(__dirname, 'uploads')
uploadDir == PathJoin(<<Dirname, <<"uploads">>>>)

\* path.join(__dirname, 'uploads', sanitizedFilename)
FilePath(sanitizedFilename) == PathJoin(<<Dirname, <<"uploads">>, sanitizedFilename>>)

\* a mutant of the bound check: every path is let through
InsideUploadsAlways(filePath) == TRUE

\* filePath.startsWith(uploadDir)
InsideUploads(filePath) == StartsWith(filePath, uploadDir)

(***************************************************************************)
(* Text encoding.  Code units: "x" an ASCII character, "H" a high          *)
(* surrogate, "L" a low surrogate, "R" U+FFFD.  Bytes on disk, one token   *)
(* per encoded scalar value: "x", "S" (the four bytes of the pair H L),    *)
(* "R" (the three bytes of U+FFFD), "FF" (a byte no UTF-8 text contains).  *)
(***************************************************************************)
CodeUnits == {"x", "H", "L"}

RECURSIVE Utf8Encode(_)
\* Buffer.from(s, 'utf8'): an unpaired surrogate is written as U+FFFD
Utf8Encode(s) ==
    IF s = <<>> THEN <<>>
    ELSE IF Len(s) >= 2 /\ s[1] = "H" /\ s[2] = "L"
    THEN <<"S">> \o Utf8Encode(SubSeq(s, 3, Len(s)))
    ELSE IF s[1] \in {"H", "L"}
    THEN <<"R">> \o Utf8Encode(Tail(s))
    ELSE <<s[1]>> \o Utf8Encode(Tail(s))

\* a mutant of the decoder: four-byte sequences are not understood
Utf8DecodeBmpOnly(b) ==
    [i \in 1..Len(b) |-> IF b[i] \in {"S", "FF"} THEN "R" ELSE b[i]]

RECURSIVE Utf8Decode(_)
\* buffer.toString('utf8'): an invalid byte is read as U+FFFD
Utf8Decode(b) ==
    IF b = <<>> THEN <<>>
    ELSE IF b[1] = "S" THEN <<"H", "L">> \o Utf8Decode(Tail(b))
    ELSE IF b[1] = "FF" THEN <<"R">> \o Utf8Decode(Tail(b))
    ELSE <<b[1]>> \o Utf8Decode(Tail(b))

(***************************************************************************)
(* The filesystem                                                          *)
(***************************************************************************)
Dir == [kind |-> "dir"]
File(bytes) == [kind |-> "file", data |-> bytes]

\* fs.existsSync
ExistsSync(d, p) == p \in DOMAIN d
IsDirectory(d, p) == p \in DOMAIN d /\ d[p].kind = "dir"

\* fs.mkdirSync(p, { recursive: true })
MkdirSync(d, p) == IF p \in DOMAIN d THEN d ELSE (p :> Dir) @@ d

\* a mutant of the write: the file is not truncated, the old content beyond
\* the new bytes stays
PutFileNoTruncate(d, p, bytes) ==
    LET old == IF p \in DOMAIN d /\ d[p].kind = "file" THEN d[p].data ELSE <<>>
    IN  (p :> File(bytes \o SubSeq(old, Len(bytes) + 1, Len(old)))) @@ d

\* a mutant of the write: the bytes are appended to the file's content
PutFileAppend(d, p, bytes) ==
    (p :> File((IF p \in DOMAIN d /\ d[p].kind = "file" THEN d[p].data ELSE <<>>)
               \o bytes)) @@ d

\* a mutant of the write: the other stored files are removed
PutFileAlone(d, p, bytes) ==
    (p :> File(bytes)) @@ [q \in { r \in DOMAIN d : d[r].kind = "dir" } |-> d[q]]

\* the file at p replaced by (or created with) bytes
PutFile(d, p, bytes) == (p :> File(bytes)) @@ d

\* a mutant of the listing: names that start with a dot are left out
ReaddirSyncVisible(d, p) ==
    { SubSeq(q, Len(p) + 2, Len(q)) :
        q \in { r \in DOMAIN d :
                  /\ Len(r) > Len(p) + 1
                  /\ SubSeq(r, 1, Len(p) + 1) = p \o <<"/">>
                  /\ r[Len(p) + 2] # "."
                  /\ \A i \in (Len(p) + 2)..Len(r) : r[i] # "/" } }

\* the names directly inside directory p (fs.readdirSync)
ReaddirSync(d, p) ==
    { SubSeq(q, Len(p) + 2, Len(q)) :
        q \in { r \in DOMAIN d :
                  /\ Len(r) > Len(p) + 1
                  /\ SubSeq(r, 1, Len(p) + 1) = p \o <<"/">>
                  /\ \A i \in (Len(p) + 2)..Len(r) : r[i] # "/" } }

StoredFiles(d) == { p \in DOMAIN d : d[p].kind = "file" /\ InsideUploads(p) }

(***************************************************************************)
(* Responses                                                               *)
(***************************************************************************)
NoResponse == [status |-> 0, type |-> "none"]
Json(status, body) == [status |-> status, type |-> "json", body |-> body]
\* res.download: the file's bytes as an attachment
Attachment(bytes) == [status |-> 200, type |-> "attachment", body |-> [bytes |-> bytes]]
\* Express's default error handler / final handler: an HTML page
Html(status, why) == [status |-> status, type |-> "html", body |-> [page |-> why]]

AccessDenied == Json(403, [error |-> <<"Access denied">>])
FileNotFound == Json(404, [error |-> <<"File not found">>])

\* what a handler step leaves behind
Outcome(d, r, paths) == [disk |-> d, res |-> r, accessed |-> paths]

(***************************************************************************)
(* File store handlers                                                     *)
(***************************************************************************)
\* send's dotfiles: 'ignore' default: a path segment such as ".a"
ContainsDotFile(p) ==
    \E seg \in { Split(p)[i] : i \in 1..Len(Split(p)) } :
        Len(seg) > 1 /\ seg[1] = "."

\* res.download(filePath) with no callback
SendFile(d, filePath) ==
    IF ContainsDotFile(filePath) THEN Html(404, "NotFoundError")
    ELSE IF IsDirectory(d, filePath) THEN Html(404, "Cannot GET")
    ELSE Attachment(d[filePath].data)

\* a mutant of the download handler: the uploads directory is made first
DownloadHandlerMkdir(d, filename) ==
    LET filePath == FilePath(basename(filename))
        made == MkdirSync(d, uploadDir)
    IN  IF ~InsideUploads(filePath) THEN Outcome(made, AccessDenied, {uploadDir})
        ELSE IF ExistsSync(made, filePath)
        THEN Outcome(made, SendFile(made, filePath), {uploadDir, filePath})
        ELSE Outcome(made, FileNotFound, {uploadDir, filePath})

\* app.get('/api/download/:filename')
DownloadHandler(d, filename) ==
    LET sanitizedFilename == basename(filename)
        filePath == FilePath(sanitizedFilename)
    IN  IF ~InsideUploads(filePath) THEN Outcome(d, AccessDenied, {})
        ELSE IF ExistsSync(d, filePath)
        THEN Outcome(d, SendFile(d, filePath), {filePath})
        ELSE Outcome(d, FileNotFound, {filePath})

\* app.get('/api/read/:filename')
ReadHandler(d, filename) ==
    LET sanitizedFilename == basename(filename)
        filePath == FilePath(sanitizedFilename)
    IN  IF ~InsideUploads(filePath) THEN Outcome(d, AccessDenied, {})
        ELSE IF ExistsSync(d, filePath)
        THEN IF IsDirectory(d, filePath)
             THEN Outcome(d, Html(500, "EISDIR"), {filePath})
             ELSE Outcome(d, Json(200, [success |-> TRUE,
                                        content |-> Utf8Decode(d[filePath].data)]),
                          {filePath})
        ELSE Outcome(d, FileNotFound, {filePath})

\* a mutant of the early return: the uploads directory is made first
BadRequestAfterMkdir(d, message) ==
    Outcome(MkdirSync(d, uploadDir), Json(400, [error |-> message]), {uploadDir})

\* return res.status(400).json({ error: message })
BadRequest(d, message) == Outcome(d, Json(400, [error |-> message]), {})

\* a mutant of the parameter check: an empty content counts as missing
MissingParametersFalsy(filename, content) == Falsy(filename) \/ Falsy(content)

\* !filename || content === undefined
MissingParameters(filename, content) == Falsy(filename) \/ content = Undefined

\* app.post('/api/write'); filename and content are the JSON body's values
WriteHandler(d, filename, content) ==
    IF MissingParameters(filename, content)
    THEN BadRequest(d, <<"Filename and content required">>)
    ELSE IF ~IsString(filename)
    THEN Outcome(d, Html(500, "ERR_INVALID_ARG_TYPE"), {})
    ELSE LET sanitizedFilename == basename(filename.v)
             filePath == FilePath(sanitizedFilename)
             made == MkdirSync(d, uploadDir)
         IN  IF ~InsideUploads(filePath) THEN Outcome(d, AccessDenied, {})
             ELSE IF ~IsString(content)
             THEN Outcome(made, Html(500, "ERR_INVALID_ARG_TYPE"), {uploadDir})
             ELSE IF IsDirectory(made, filePath)
             THEN Outcome(made, Html(500, "EISDIR"), {uploadDir, filePath})
             ELSE Outcome(PutFile(made, filePath, Utf8Encode(content.v)),
                          Json(200, [success |-> TRUE,
                                     filename |-> sanitizedFilename]),
                          {uploadDir, filePath})

\* a mutant of the list handler: the uploads directory is made when absent
FilesHandlerMkdir(d) ==
    LET made == MkdirSync(d, uploadDir)
    IN  Outcome(made, Json(200, [files |-> ReaddirSync(made, uploadDir)]), {uploadDir})

\* app.get('/api/files')
FilesHandler(d) ==
    IF ~ExistsSync(d, uploadDir)
    THEN Outcome(d, Json(200, [files |-> {}]), {uploadDir})
    ELSE Outcome(d, Json(200, [files |-> ReaddirSync(d, uploadDir)]), {uploadDir})

Digits == <<"0", "1", "2", "3", "4", "5", "6", "7", "8", "9">>

RECURSIVE ToDecimal(_)
\* String(n) of a non-negative integer
ToDecimal(n) ==
    IF n < 10 THEN <<Digits[n + 1]>>
    ELSE ToDecimal(n \div 10) \o <<Digits[(n % 10) + 1]>>

\* multer.diskStorage filename: Date.now() + '-' + path.basename(originalname)
UploadFilename(clock, originalname) ==
    ToDecimal(clock) \o <<"-">> \o basename(originalname)

NoFile == [present |-> FALSE]
FilePart(originalname, bytes) ==
    [present |-> TRUE, originalname |-> originalname, data |-> bytes]

\* app.post('/api/upload', upload.single('file'), ...)
UploadHandler(d, clock, file) ==
    IF ~file.present
    THEN BadRequest(d, <<"No file uploaded">>)
    ELSE LET made == MkdirSync(d, uploadDir)
             filename == UploadFilename(clock, file.originalname)
             dest == PathJoin(<<uploadDir, filename>>)
         IN  IF IsDirectory(made, dest)
             THEN Outcome(made, Html(500, "EISDIR"), {uploadDir, dest})
             ELSE Outcome(PutFile(made, dest, file.data),
                          Json(200, [success |-> TRUE,
                                     filename |-> filename,
                                     path |-> dest,
                                     originalName |-> file.originalname]),
                          {uploadDir, dest})

(***************************************************************************)
(* JSON values of an upstream reply                                        *)
(***************************************************************************)
Obj(fields) == [t |-> "object", f |-> fields]
Arr(items) == [t |-> "array", v |-> items]
Threw == [t |-> "throw"]

\* x[key] in JavaScript; key "0" is the index 0
Get(x, key) ==
    IF x = Threw \/ x = Undefined \/ x = Null THEN Threw
    ELSE IF x.t = "object"
    THEN IF key \in DOMAIN x.f THEN x.f[key] ELSE Undefined
    ELSE IF x.t = "array"
    THEN IF key = "0" /\ Len(x.v) >= 1 THEN x.v[1] ELSE Undefined
    ELSE IF x.t = "string"
    THEN IF key = "0" /\ Len(x.v) >= 1 THEN Str(<<x.v[1]>>) ELSE Undefined
    ELSE Undefined

RECURSIVE GetPath(_, _)
\* x[k1][k2]...[kn]
GetPath(x, keys) ==
    IF keys = <<>> THEN x ELSE GetPath(Get(x, Head(keys)), Tail(keys))

\* data.choices[0].message.content
ChatPath == <<"choices", "0", "message", "content">>
\* data.candidates[0].content.parts[0].text
GeminiPath == <<"candidates", "0", "content", "parts", "0", "text">>

(***************************************************************************)
(* AI gateway                                                              *)
(***************************************************************************)
DeepSeek == Str(<<"deepseek">>)
Gemini == Str(<<"gemini">>)
Copilot == Str(<<"copilot">>)
Services == {DeepSeek, Gemini, Copilot}

\* the field path each helper reads the text from
TextPath(service) == IF service = Gemini THEN GeminiPath ELSE ChatPath

\* the prefix of each helper's error message
ErrorPrefix(service) ==
    IF service = DeepSeek THEN "DeepSeek API error: "
    ELSE IF service = Gemini THEN "Gemini API error: "
    ELSE "OpenAI API error: "

\* a default parameter value applies to an undefined argument only
DefaultParam(arg, default) == IF arg = Undefined THEN default ELSE arg

\* callDeepSeek's fetch
callDeepSeek(apiKey, prompt, model) ==
    [method |-> "POST",
     url |-> <<"https://api.deepseek.com/v1/chat/completions">>,
     authorization |-> <<"Bearer ", apiKey>>,
     body |-> [model |-> DefaultParam(model, Str(<<"deepseek-chat">>)),
               messages |-> <<[role |-> "user", content |-> prompt]>>]]

\* callGemini's fetch
callGemini(apiKey, prompt, model) ==
    [method |-> "POST",
     url |-> <<"https://generativelanguage.googleapis.com/v1/models/",
               DefaultParam(model, Str(<<"gemini-pro">>)),
               ":generateContent?key=", apiKey>>,
     authorization |-> <<>>,
     body |-> [contents |-> <<[parts |-> <<[text |-> prompt]>>]>>]]

\* a mutant of callCopilot: the key goes into the URL as well
callCopilotKeyInUrl(apiKey, prompt, model) ==
    [method |-> "POST",
     url |-> <<"https://api.openai.com/v1/chat/completions", "?key=", apiKey>>,
     authorization |-> <<"Bearer ", apiKey>>,
     body |-> [model |-> DefaultParam(model, Str(<<"gpt-4">>)),
               messages |-> <<[role |-> "user", content |-> prompt]>>]]

\* callCopilot's fetch
callCopilot(apiKey, prompt, model) ==
    [method |-> "POST",
     url |-> <<"https://api.openai.com/v1/chat/completions">>,
     authorization |-> <<"Bearer ", apiKey>>,
     body |-> [model |-> DefaultParam(model, Str(<<"gpt-4">>)),
               messages |-> <<[role |-> "user", content |-> prompt]>>]]

\* a mutant of the switch: an unknown service falls into the deepseek case
GatewayCallsDefaultDeepSeek(body) ==
    IF body.service = Gemini
    THEN <<callGemini(body.apiKey, body.prompt, body.model)>>
    ELSE IF body.service = Copilot
    THEN <<callCopilot(body.apiKey, body.prompt, body.model)>>
    ELSE <<callDeepSeek(body.apiKey, body.prompt, body.model)>>

\* a mutant of the switch: the copilot case repeats its call
GatewayCallsTwice(body) ==
    IF body.service = DeepSeek
    THEN <<callDeepSeek(body.apiKey, body.prompt, body.model)>>
    ELSE IF body.service = Gemini
    THEN <<callGemini(body.apiKey, body.prompt, body.model)>>
    ELSE IF body.service = Copilot
    THEN <<callCopilot(body.apiKey, body.prompt, body.model),
           callCopilot(body.apiKey, body.prompt, body.model)>>
    ELSE <<>>

\* switch(service): the outbound calls the handler issues for a request body
GatewayCalls(body) ==
    IF body.service = DeepSeek
    THEN <<callDeepSeek(body.apiKey, body.prompt, body.model)>>
    ELSE IF body.service = Gemini
    THEN <<callGemini(body.apiKey, body.prompt, body.model)>>
    ELSE IF body.service = Copilot
    THEN <<callCopilot(body.apiKey, body.prompt, body.model)>>
    ELSE <<>>

InvalidService == Json(400, [error |-> <<"Invalid service">>])

\* res.json({ success: true, response }): JSON.stringify drops an undefined field
SuccessBody(response) ==
    IF response = Undefined THEN [success |-> TRUE]
    ELSE [success |-> TRUE, response |-> response]

\* Upstream replies: the fetch rejects, answers a non-success status, answers
\* success with a body that is no JSON, or answers success with JSON data
Rejected(message) == [kind |-> "rejected", message |-> message]
NotOk(statusText) == [kind |-> "response", ok |-> FALSE, statusText |-> statusText]
NotJson == [kind |-> "response", ok |-> TRUE, json |-> FALSE]
OkJson(data) == [kind |-> "response", ok |-> TRUE, json |-> TRUE, data |-> data]

\* a mutant of the helpers: the status of the reply is not looked at
GatewayReplyIgnoresStatus(service, reply) ==
    IF reply.kind = "rejected"
    THEN Json(500, [error |-> reply.message])
    ELSE IF reply.ok /\ ~reply.json
    THEN Json(500, [error |-> <<"invalid json response body">>])
    ELSE LET text == GetPath(IF reply.ok THEN reply.data ELSE Obj(<<>>),
                             TextPath(service))
         IN  IF text = Threw
             THEN Json(500, [error |-> <<"Cannot read properties of undefined">>])
             ELSE Json(200, SuccessBody(text))

\* a mutant of the helpers: the text is read from the last choice
GatewayReplyLastChoice(service, reply) ==
    IF reply.kind = "rejected"
    THEN Json(500, [error |-> reply.message])
    ELSE IF ~reply.ok
    THEN Json(500, [error |-> <<ErrorPrefix(service), reply.statusText>>])
    ELSE IF ~reply.json
    THEN Json(500, [error |-> <<"invalid json response body">>])
    ELSE LET list == Get(reply.data, Head(TextPath(service)))
             item == IF list # Threw /\ list # Undefined /\ list # Null
                        /\ list.t = "array" /\ Len(list.v) >= 1
                     THEN list.v[Len(list.v)] ELSE Get(list, "0")
             text == GetPath(item, SubSeq(TextPath(service), 3,
                                          Len(TextPath(service))))
         IN  IF text = Threw
             THEN Json(500, [error |-> <<"Cannot read properties of undefined">>])
             ELSE Json(200, SuccessBody(text))

\* the rest of the handler once the fetch settles: the helper's status check,
\* response.json(), the field path, and the handler's try/catch
GatewayReply(service, reply) ==
    IF reply.kind = "rejected"
    THEN Json(500, [error |-> reply.message])
    ELSE IF ~reply.ok
    THEN Json(500, [error |-> <<ErrorPrefix(service), reply.statusText>>])
    ELSE IF ~reply.json
    THEN Json(500, [error |-> <<"invalid json response body">>])
    ELSE LET text == GetPath(reply.data, TextPath(service))
         IN  IF text = Threw
             THEN Json(500, [error |-> <<"Cannot read properties of undefined">>])
             ELSE Json(200, SuccessBody(text))

(***************************************************************************)
(* Inputs explored                                                         *)
(***************************************************************************)
PathChars == {"a", ".", "/"}
\* the filename of GET /api/download/..%2F..%2Fetc%2Fpasswd
TraversalName == <<".", ".", "/", ".", ".", "/", "etc", "/", "passwd">>
\* shapes of name beyond the enumerated length
SpecialNames ==
    {TraversalName, <<".", ".">>, <<"a", "/", ".">>, <<".", ".", "/", "a">>,
     <<"a", "/", ".", ".">>, <<".", "a">>}
Filenames == SeqsUpTo(PathChars, MaxNameLen) \cup SpecialNames
FewNames == {<<"a">>, <<".">>, <<".", ".">>}
TextNames == {<<"a">>, <<".", ".", "/", "a">>}
UploadNames == {<<"a">>, <<".", ".", "/", "a">>, <<"a", "#", "b">>}
\* the names uploads can be stored under
UploadedNames ==
    { UploadFilename(t, n) : t \in 0..MaxClock, n \in UploadNames }

\* names written next to uploads: plain, hidden, shaped like a generated
\* upload name, and the storage root itself
StoreNames == {<<"a">>, <<".", "a">>, <<"0", "-", "a">>, <<".">>}

Texts == SeqsUpTo(CodeUnits, MaxContentLen)
\* two raw names of the same stored file and another file; short contents
ConcurrentNames == {<<"a">>, <<".", ".", "/", "a">>, <<"b">>}
ConcurrentTexts == {<<>>, <<"x">>, <<"H", "L">>}
Bodies == {<<>>, <<"x">>, <<"FF">>}

RECURSIVE Nest(_, _)
\* the JSON value that holds leaf at the field path keys
Nest(keys, leaf) ==
    IF keys = <<>> THEN leaf
    ELSE IF Head(keys) = "0" THEN Arr(<<Nest(Tail(keys), leaf)>>)
    ELSE Obj(Head(keys) :> Nest(Tail(keys), leaf))

\* the JSON value in which the first k steps of the path exist and no more
Truncated(keys, k) ==
    Nest(SubSeq(keys, 1, k), IF keys[k + 1] = "0" THEN Arr(<<>>) ELSE Obj(<<>>))

\* a reply with two choices (candidates)
TwoChoices(keys) ==
    Obj(Head(keys) :>
        Arr(<<Nest(SubSeq(keys, 3, Len(keys)), Str(<<"hello">>)),
              Nest(SubSeq(keys, 3, Len(keys)), Str(<<"other">>))>>))

ReplyData(service) ==
    LET keys == TextPath(service)
    IN  {Nest(keys, Str(<<"hello">>)), Nest(keys, Str(<<>>)), Nest(keys, Null),
         TwoChoices(keys), Null}
        \cup { Truncated(keys, k) : k \in 0..(Len(keys) - 1) }

StatusTexts == {<<"Internal Server Error">>, <<"Unauthorized">>}

Replies(service) ==
    {Rejected(<<"request failed">>), NotJson}
    \cup { NotOk(t) : t \in StatusTexts }
    \cup { OkJson(data) : data \in ReplyData(service) }

GatewayBodies ==
    [service : Services \cup {Str(<<"other">>), Undefined},
     apiKey : {Str(<<"x">>)},
     prompt : {Str(<<"hi">>)},
     model : {Undefined}]
    \cup [service : {DeepSeek, Str(<<"other">>)},
          apiKey : {Str(<<"x">>)},
          prompt : {Str(<<"hi">>)},
          model : {Str(<<"m">>)}]

\* every way a JSON body can carry, or not carry, a model
ModelBodies ==
    [service : Services,
     apiKey : {Str(<<"x">>)},
     prompt : {Str(<<"hi">>)},
     model : {Undefined, Null, Str(<<>>), Str(<<"m">>)}]

FewReplies(service) ==
    {NotOk(<<"Internal Server Error">>),
     OkJson(Nest(TextPath(service), Str(<<"hello">>)))}

(***************************************************************************)
(* Initial state: the process has started, nothing was requested yet       *)
(***************************************************************************)
NoRequest == [op |-> "none"]
\* the page before the editor is set up
NoPreview == [loaded |-> FALSE]
\* the client addresses requests come from
ClientIps == {"10.0.0.1", "10.0.0.2"}
NoReply == [kind |-> "none"]

\* the disk around the application: the uploads directory may not exist yet
BaseDisk ==
    (<<"/">> :> Dir) @@ (Dirname :> Dir) @@ (<<"/", "etc">> :> Dir)
    @@ (<<"/", "etc", "/", "passwd">> :> File(<<"root">>))

Init ==
    /\ disk \in {BaseDisk, MkdirSync(BaseDisk, uploadDir)}
    /\ now = 0
    /\ req = NoRequest
    /\ res = NoResponse
    /\ accessed = {}
    /\ pending = <<>>
    /\ outbound = 0
    /\ upstream = NoReply
    /\ written = <<>>
    /\ uploaded = <<>>
    /\ writes = <<>>
    /\ hits = [ip \in ClientIps |-> 0]
    /\ chat = [messages |-> <<>>, asking |-> <<>>, sent |-> 0, notice |-> <<>>]
    /\ preview = NoPreview
    /\ dataSheets = <<>>

(***************************************************************************)
(* Actions                                                                 *)
(***************************************************************************)
\* the history after a response: a successful Write or Upload replaces what was
\* recorded for the stored name the response reports
Recorded(w, request, r) ==
    IF r.status = 200 /\ request.op \in {"write", "upload"}
    THEN LET kept == { f \in DOMAIN w : w[f].stored # r.body.filename }
             rest == [f \in kept |-> w[f]]
         IN  IF request.op = "write"
             THEN (request.filename.v :>
                     [content |-> request.content.v, stored |-> r.body.filename])
                  @@ rest
             ELSE rest
    ELSE w

\* the upload history after a response: a successful Upload records its
\* bytes under the name it reports, a successful Write forgets that name
RecordedUpload(u, request, r) ==
    IF r.status = 200 /\ request.op \in {"write", "upload"}
    THEN LET kept == DOMAIN u \ {r.body.filename}
             rest == [f \in kept |-> u[f]]
         IN  IF request.op = "upload"
             THEN (r.body.filename :> request.file.data) @@ rest
             ELSE rest
    ELSE u

\* what a synchronous file store handler does from request to response
FileEffect(request, out) ==
    /\ Cardinality(StoredFiles(out.disk)) <= MaxFiles
    /\ req' = request
    /\ disk' = out.disk
    /\ res' = out.res
    /\ accessed' = out.accessed
    /\ upstream' = NoReply
    /\ written' = Recorded(written, request, out.res)
    /\ uploaded' = RecordedUpload(uploaded, request, out.res)
    /\ UNCHANGED <<now, pending, outbound, chat, preview, dataSheets>>

\* a synchronous file store handler ran from request to response
FileStep(request, out) == FileEffect(request, out) /\ UNCHANGED <<writes, hits>>

Upload(file) ==
    FileStep([op |-> "upload", file |-> file], UploadHandler(disk, now, file))

Download(filename) ==
    FileStep([op |-> "download", filename |-> filename],
             DownloadHandler(disk, filename))

Read(filename) ==
    FileStep([op |-> "read", filename |-> filename], ReadHandler(disk, filename))

Write(filename, content) ==
    FileStep([op |-> "write", filename |-> filename, content |-> content],
             WriteHandler(disk, filename, content))

Files == FileStep([op |-> "files"], FilesHandler(disk))

\* the :filename the server receives when the browser fetches
\* `/api/read/${filename}`: the URL ends at the first "#" or "?"
FetchedParam(filename) ==
    LET marks == { i \in 1..Len(filename) : filename[i] \in {"#", "?"} }
    IN  IF marks = {} THEN filename
        ELSE SubSeq(filename, 1, (CHOOSE i \in marks : \A j \in marks : i <= j) - 1)

\* uploadFile in the browser, after its upload succeeded: it reads the file
\* back under the filename the upload returned
ClientRead(filename) ==
    FileStep([op |-> "read", filename |-> FetchedParam(filename),
              returned |-> filename],
             ReadHandler(disk, FetchedParam(filename)))

\* a POST /api/write arrives while others are in flight; its handler has
\* not run yet (the body is still being received and parsed)
WriteArrives(filename, content) ==
    /\ Len(writes) < MaxPending
    /\ writes' = Append(writes, [filename |-> filename, content |-> content,
                                 phase |-> "received", status |-> 0, order |-> 0])
    /\ UNCHANGED <<disk, now, req, res, accessed, pending, outbound, upstream,
                   written, uploaded, chat, preview, dataSheets, hits>>

\* the handler of the i-th request of the burst runs, from start to response
\* in one turn of the event loop (it calls only synchronous fs functions)
WriteHandled(i) ==
    /\ i \in DOMAIN writes
    /\ writes[i].phase = "received"
    /\ LET out == WriteHandler(disk, writes[i].filename, writes[i].content)
           handled == { j \in DOMAIN writes : writes[j].phase = "handled" }
       IN  /\ FileEffect([op |-> "write", filename |-> writes[i].filename,
                          content |-> writes[i].content], out)
           /\ writes' = [writes EXCEPT ![i] =
                            [@ EXCEPT !.phase = "handled",
                                      !.status = out.res.status,
                                      !.order = Cardinality(handled) + 1]]
           /\ UNCHANGED hits

\* every request of the burst was answered; the next burst starts afresh
BurstOver ==
    /\ writes # <<>>
    /\ \A i \in DOMAIN writes : writes[i].phase = "handled"
    /\ writes' = <<>>
    /\ UNCHANGED <<disk, now, req, res, accessed, pending, outbound, upstream,
                   written, uploaded, chat, preview, dataSheets, hits>>

\* a request to an /api endpoint arrives from client ip: the middleware
\* chain is cors, bodyParser.json, bodyParser.urlencoded, express.static and
\* then the route, so its handler runs (here that of GET /api/files)
ApiRequest(ip) ==
    /\ hits[ip] < RateLimit + MaxExtra
    /\ FileEffect([op |-> "files", ip |-> ip], FilesHandler(disk))
    /\ hits' = [hits EXCEPT ![ip] = @ + 1]
    /\ UNCHANGED writes

\* a one-minute window ends
WindowOver ==
    /\ hits' = [ip \in ClientIps |-> 0]
    /\ hits' # hits
    /\ UNCHANGED <<disk, now, req, res, accessed, pending, outbound, upstream,
                   written, uploaded, chat, preview, dataSheets, writes>>

\* the clock moves on
Tick ==
    /\ now < MaxClock
    /\ now' = now + 1
    /\ UNCHANGED <<disk, req, res, accessed, pending, outbound, upstream, written, uploaded, chat, preview, dataSheets,
                   writes, hits>>

\* POST /api/gateway up to the await of the fetch
GatewayRequest(body) ==
    LET calls == GatewayCalls(body)
    IN  /\ req' = [op |-> "gateway", body |-> body]
        /\ upstream' = NoReply
        /\ accessed' = {}
        /\ IF calls = <<>>
           THEN /\ res' = InvalidService
                /\ UNCHANGED <<pending, outbound>>
           ELSE /\ Cardinality(DOMAIN pending) < MaxPending
                /\ outbound + Len(calls) <= MaxCalls
                /\ LET id == CHOOSE i \in 1..MaxPending :
                                 /\ i \notin DOMAIN pending
                                 /\ \A j \in 1..(i - 1) : j \in DOMAIN pending
                   IN  pending' = (id :> [body |-> body, calls |-> calls]) @@ pending
                /\ outbound' = outbound + Len(calls)
                /\ res' = NoResponse
        /\ UNCHANGED <<disk, now, written, uploaded, chat, preview, dataSheets, writes, hits>>

\* the fetch of pending request id settles and the handler runs to its response
UpstreamReply(id, r) ==
    /\ id \in DOMAIN pending
    /\ req' = [op |-> "gateway", body |-> pending[id].body]
    /\ upstream' = r
    /\ res' = GatewayReply(pending[id].body.service, r)
    /\ pending' = [i \in DOMAIN pending \ {id} |-> pending[i]]
    /\ accessed' = {}
    /\ UNCHANGED <<disk, now, outbound, written, uploaded, chat, preview, dataSheets, writes, hits>>

\* the upstream answers the fetch of pending request id; the handler's
\* continuation has not run yet
UpstreamAnswers(id, r) ==
    /\ id \in DOMAIN pending
    /\ "reply" \notin DOMAIN pending[id]
    /\ pending' = [pending EXCEPT ![id] =
                      [body |-> @.body, calls |-> @.calls, reply |-> r]]
    /\ UNCHANGED <<disk, now, req, res, accessed, outbound, upstream, written, uploaded, chat, preview, dataSheets,
                   writes, hits>>

\* the event loop resumes the handler of request id after its await
GatewayResponds(id) ==
    /\ id \in DOMAIN pending
    /\ "reply" \in DOMAIN pending[id]
    /\ UpstreamReply(id, pending[id].reply)

(***************************************************************************)
(* The browser's AI chat                                                   *)
(***************************************************************************)
\* the text of the loading placeholder
Thinking == <<"Thinking...">>

\* String.prototype.trim over blank tokens
RECURSIVE trim(_)
trim(s) ==
    IF s = <<>> THEN s
    ELSE IF Head(s) = " " THEN trim(Tail(s))
    ELSE IF s[Len(s)] = " " THEN trim(SubSeq(s, 1, Len(s) - 1))
    ELSE s

\* 'msg-' + Date.now() at the clock reading t
MessageId(t) == <<"msg-", t>>

\* addAIMessage at the clock reading t: a new element is appended to
\* #aiMessages
addAIMessage(messages, t, role, content) ==
    Append(messages, [id |-> MessageId(t), role |-> role, content |-> content])

\* document.getElementById: the position of the first element in document
\* order that carries the id, 0 for null
getElementById(messages, id) ==
    IF \E i \in 1..Len(messages) : messages[i].id = id
    THEN CHOOSE i \in 1..Len(messages) :
             /\ messages[i].id = id
             /\ \A j \in 1..(i - 1) : messages[j].id # id
    ELSE 0

\* Element.remove of the element at position i
remove(messages, i) ==
    SubSeq(messages, 1, i - 1) \o SubSeq(messages, i + 1, Len(messages))

\* what the awaited fetch and response.json() can hand back
ChatOutcomes ==
    { [kind |-> "data", success |-> TRUE, text |-> <<"r">>],
      [kind |-> "data", success |-> FALSE, text |-> <<"e">>],
      [kind |-> "throw", text |-> <<"Failed to fetch">>] }

\* what the user typed into #aiPrompt
PromptInputs == {<<>>, <<" ">>, <<"p">>, <<" ", "q">>}

\* sendAIMessage up to the await of the fetch; hasKey tells whether
\* apiKeys[service] is set, dt how far the clock has moved between the two
\* addAIMessage calls
sendAIMessage(input, hasKey, dt) ==
    LET prompt == trim(input)
        second == now + dt
        withUser == addAIMessage(chat.messages, now, "user", prompt)
    IN  /\ Len(chat.asking) < MaxPending
        /\ chat.sent < MaxCalls
        /\ second <= MaxClock
        /\ IF prompt = <<>>
           THEN UNCHANGED <<chat, now>>
           ELSE IF ~hasKey
           THEN /\ chat' = [chat EXCEPT !.notice = <<"Please set API key for ">>]
                /\ UNCHANGED now
           ELSE /\ chat' = [chat EXCEPT
                       !.messages = addAIMessage(withUser, second, "assistant",
                                                 Thinking),
                       !.asking = Append(@, [loadingId |-> MessageId(second),
                                             prompt |-> prompt]),
                       !.sent = @ + 1,
                       !.notice = <<>>]
                /\ now' = second
        /\ UNCHANGED <<disk, req, res, accessed, pending, outbound, upstream,
                       written, uploaded, writes, hits, preview, dataSheets>>

\* sendAIMessage after its await, for the k-th prompt in flight: the element
\* found under loadingId is removed and the answer or the error is added; a
\* null element throws, in the catch block too
sendAIMessageResumes(k, outcome) ==
    /\ k \in 1..Len(chat.asking)
    /\ LET i == getElementById(chat.messages, chat.asking[k].loadingId)
           text == IF outcome.kind = "data" /\ outcome.success
                   THEN outcome.text
                   ELSE <<"Error: ">> \o outcome.text
       IN  chat' = [chat EXCEPT
                       !.asking = remove(@, k),
                       !.messages = IF i = 0 THEN @
                                    ELSE addAIMessage(remove(@, i), now,
                                                      "assistant", text)]
    /\ UNCHANGED <<disk, now, req, res, accessed, pending, outbound, upstream,
                   written, uploaded, writes, hits, preview, dataSheets>>

(***************************************************************************)
(* The browser's editor and its debounced live preview                     *)
(***************************************************************************)
\* no timeout is scheduled (debounceTimer / timeout is undefined or cleared)
NoTimer == [set |-> FALSE]

\* the mistake of scheduling the refresh without clearing a pending one: the
\* earlier deadline stays
debounceKeepsPending(timer) ==
    IF timer.set THEN timer ELSE [set |-> TRUE, left |-> DebounceWait]

\* the change handler: clearTimeout of the pending timeout, then setTimeout
\* of the refresh DebounceWait milliseconds ahead
debounce(timer) == [set |-> TRUE, left |-> DebounceWait]

\* updatePreview / updateLivePreview: the preview frame shows a blob made
\* from editor.getValue() at the time of the call
updatePreview(p) == [p EXCEPT !.shown = p.content]

\* the editor's content after an edit
EditorTexts == {<<"d">>, <<"h">>}

\* the page loads: the initial preview is drawn; the page of the full client
\* has set the default content before, whose change event scheduled a refresh
LoadPage(full) ==
    /\ ~preview.loaded
    /\ preview' = [loaded |-> TRUE, content |-> <<"d">>, shown |-> <<"d">>,
                   timer |-> IF full THEN debounce(NoTimer) ELSE NoTimer,
                   quiet |-> 0, refreshes |-> 0, changes |-> 0]
    /\ UNCHANGED <<disk, now, req, res, accessed, pending, outbound, upstream,
                   written, uploaded, writes, hits, chat, dataSheets>>

\* editor.on('change'): the content is now c; quiet and refreshes restart
\* with the change
EditorChange(c) ==
    /\ preview.loaded
    /\ preview.changes < MaxChanges
    /\ preview' = [preview EXCEPT !.content = c,
                                  !.timer = debounce(@),
                                  !.quiet = 0,
                                  !.refreshes = 0,
                                  !.changes = @ + 1]
    /\ UNCHANGED <<disk, now, req, res, accessed, pending, outbound, upstream,
                   written, uploaded, writes, hits, chat, dataSheets>>

\* a millisecond passes; a timeout that is due may run late
MillisecondPasses ==
    /\ preview.loaded
    /\ preview.quiet < DebounceWait + MaxLate
    /\ preview' = [preview EXCEPT
                      !.quiet = @ + 1,
                      !.timer = IF @.set /\ @.left > 0
                                THEN [set |-> TRUE, left |-> @.left - 1]
                                ELSE @]
    /\ UNCHANGED <<disk, now, req, res, accessed, pending, outbound, upstream,
                   written, uploaded, writes, hits, chat, dataSheets>>

\* the timeout is due and its callback runs the refresh
TimeoutFires ==
    /\ preview.loaded
    /\ preview.timer.set
    /\ preview.timer.left = 0
    /\ preview' = [updatePreview(preview) EXCEPT !.timer = NoTimer,
                                                 !.refreshes = @ + 1]
    /\ UNCHANGED <<disk, now, req, res, accessed, pending, outbound, upstream,
                   written, uploaded, writes, hits, chat, dataSheets>>

\* the refresh button: the preview is redrawn at once, the timeout stays
ManualRefresh ==
    /\ preview.loaded
    /\ preview' = updatePreview(preview)
    /\ preview' # preview
    /\ UNCHANGED <<disk, now, req, res, accessed, pending, outbound, upstream,
                   written, uploaded, writes, hits, chat, dataSheets>>

(***************************************************************************)
(* The data sheet store                                                    *)
(***************************************************************************)
\* the property key a value is converted to
PropertyKey(id) == IF id = Undefined THEN <<"undefined">> ELSE id.v

\* properties every object literal inherits from Object.prototype
Inherited == {<<"constructor">>}

\* dataSheets[key]: an own property, else an inherited one, else undefined
GetProperty(sheets, key) ==
    IF key \in DOMAIN sheets THEN sheets[key]
    ELSE IF key \in Inherited THEN Function
    ELSE Undefined

\* dataSheets[key] = value
SetProperty(sheets, key, value) ==
    [k \in DOMAIN sheets \cup {key} |-> IF k = key THEN value ELSE sheets[k]]

\* the body res.json sends for an object literal: JSON.stringify leaves out
\* the properties whose value is undefined or a function
Stringify(fields) ==
    [k \in { f \in DOMAIN fields : fields[f] \notin {Undefined, Function} }
        |-> fields[k]]

SheetNotFound == Json(404, [error |-> <<"Data sheet not found">>])

\* if (sheet) ... else: the sheet counts as missing when it is falsy
SheetMissing(sheet) == Falsy(sheet)

\* the data values a client stores
SheetData ==
    {Undefined, Null, False, Num(0), Num(7), Str(<<>>), Str(<<"x">>), Array(<<>>)}

\* the ids a client names
SheetIds == {<<"s">>, <<"t">>, <<"constructor">>, <<"undefined">>}

\* GET /api/datasheet/:id
GetSheet(id) ==
    LET sheet == GetProperty(dataSheets, id)
    IN  /\ req' = [op |-> "getSheet", id |-> id]
        /\ res' = IF SheetMissing(sheet) THEN SheetNotFound
                  ELSE Json(200, Stringify([success |-> True, data |-> sheet]))
        /\ UNCHANGED <<disk, now, accessed, pending, outbound, upstream,
                       written, uploaded, writes, hits, chat, preview,
                       dataSheets>>

\* POST /api/datasheet with the body {id, data}
PostSheet(id, data) ==
    /\ req' = [op |-> "postSheet", id |-> id, data |-> data]
    /\ dataSheets' = SetProperty(dataSheets, PropertyKey(id), data)
    /\ res' = Json(200, Stringify([success |-> True, id |-> id]))
    /\ UNCHANGED <<disk, now, accessed, pending, outbound, upstream, written,
                   uploaded, writes, hits, chat, preview>>

\* PUT /api/datasheet/:id with the body {data}
PutSheet(id, data) ==
    /\ req' = [op |-> "putSheet", id |-> id, data |-> data]
    /\ dataSheets' = SetProperty(dataSheets, id, data)
    /\ res' = Json(200, Stringify([success |-> True, id |-> Str(id)]))
    /\ UNCHANGED <<disk, now, accessed, pending, outbound, upstream, written,
                   uploaded, writes, hits, chat, preview>>

(***************************************************************************)
(* Specifications                                                          *)
(***************************************************************************)
\* the file store under every enumerated filename
NextFiles ==
    \/ \E f \in Filenames : Download(f)
    \/ \E f \in Filenames : Read(f)
    \/ \E f \in { Str(n) : n \in Filenames } \cup {Undefined, Num(7)},
          c \in {Undefined, Num(7), Str(<<"x">>)} : Write(f, c)
    \/ Files

SpecFiles == Init /\ [][NextFiles]_vars

\* writing and reading back every enumerated text
NextText ==
    \/ \E f \in TextNames, c \in Texts : Write(Str(f), Str(c))
    \/ Write(Str(<<"b">>), Str(<<"x">>))
    \/ \E f \in {Undefined, Str(<<"a">>)} : Write(f, Undefined)
    \/ Write(Undefined, Str(<<>>))
    \/ \E f \in TextNames : Read(f)
    \/ \E f \in TextNames : Download(f)

SpecText == Init /\ [][NextText]_vars

\* uploads as the clock moves
NextUpload ==
    \/ \E f \in {NoFile} \cup { FilePart(n, b) : n \in UploadNames, b \in Bodies } :
          Upload(f)
    \/ \E f \in UploadedNames : Read(f)
    \/ \E f \in UploadedNames : Download(f)
    \/ \E f \in DOMAIN uploaded : ClientRead(f)
    \/ Files
    \/ Tick

SpecUpload == Init /\ [][NextUpload]_vars

\* writes and uploads side by side, and the listing
NextStore ==
    \/ \E f \in StoreNames : Write(Str(f), Str(<<"x">>))
    \/ \E b \in {<<>>, <<"FF">>} : Upload(FilePart(<<"a">>, b))
    \/ Files
    \/ Tick

SpecStore == Init /\ [][NextStore]_vars

\* bursts of concurrent Writes, handled in every order
NextConcurrent ==
    \/ \E f \in ConcurrentNames, c \in ConcurrentTexts :
          WriteArrives(Str(f), Str(c))
    \/ \E i \in DOMAIN writes : WriteHandled(i)
    \/ BurstOver

SpecConcurrent == Init /\ [][NextConcurrent]_vars

\* the gateway under every enumerated request body and upstream reply
NextGateway ==
    \/ \E b \in GatewayBodies : GatewayRequest(b)
    \/ \E id \in DOMAIN pending :
          \E r \in Replies(pending[id].body.service) : UpstreamReply(id, r)

SpecGateway == Init /\ [][NextGateway]_vars

\* the gateway under every form of the model field
NextModel ==
    \/ \E b \in ModelBodies : GatewayRequest(b)
    \/ \E id \in DOMAIN pending :
          \E r \in FewReplies(pending[id].body.service) : UpstreamReply(id, r)

SpecModel == Init /\ [][NextModel]_vars

\* the gateway with the upstream as a party of its own: it answers a call
\* or it does not, and the event loop runs every continuation that is ready
NextLive ==
    \/ \E b \in GatewayBodies : GatewayRequest(b)
    \/ \E id \in DOMAIN pending :
          \E r \in FewReplies(pending[id].body.service) : UpstreamAnswers(id, r)
    \/ \E id \in DOMAIN pending : GatewayResponds(id)

SpecLive ==
    /\ Init
    /\ [][NextLive]_vars
    /\ \A id \in 1..MaxPending : WF_vars(GatewayResponds(id))

\* requests of two clients within one-minute windows
NextRate ==
    \/ \E ip \in ClientIps : ApiRequest(ip)
    \/ WindowOver

SpecRate == Init /\ [][NextRate]_vars

\* the whole server under a few inputs of each kind
Next ==
    \/ \E f \in { Str(n) : n \in FewNames } \cup {Undefined},
          c \in {Undefined, Num(7), Str(<<"x">>)} : Write(f, c)
    \/ \E f \in FewNames : Read(f)
    \/ \E f \in FewNames : Download(f)
    \/ \E f \in {NoFile, FilePart(<<"a">>, <<"x">>)} : Upload(f)
    \/ Files
    \/ Tick
    \/ \E b \in { g \in GatewayBodies :
                    g.model = Undefined /\ g.service \in {DeepSeek, Undefined} } :
          GatewayRequest(b)
    \/ \E id \in DOMAIN pending :
          \E r \in FewReplies(pending[id].body.service) : UpstreamReply(id, r)

Spec == Init /\ [][Next]_vars

\* the browser chat: prompts sent and answered while the clock moves
NextChat ==
    \/ \E input \in PromptInputs, hasKey \in BOOLEAN, dt \in {0, 1} :
          sendAIMessage(input, hasKey, dt)
    \/ \E k \in 1..MaxPending, outcome \in ChatOutcomes :
          sendAIMessageResumes(k, outcome)
    \/ Tick

SpecChat == Init /\ [][NextChat]_vars

\* the editor page: edits, the refresh button and the passing of time; time
\* moves on and a due timeout is run by the event loop
NextPreview ==
    \/ \E full \in BOOLEAN : LoadPage(full)
    \/ \E c \in EditorTexts : EditorChange(c)
    \/ MillisecondPasses
    \/ TimeoutFires
    \/ ManualRefresh

SpecPreview ==
    /\ Init
    /\ [][NextPreview]_vars
    /\ WF_vars(MillisecondPasses)
    /\ WF_vars(TimeoutFires)

\* the data sheet store under stores and lookups of a few ids
NextSheets ==
    \/ \E id \in {Str(<<"s">>), Undefined}, data \in SheetData :
          PostSheet(id, data)
    \/ \E id \in {<<"s">>, <<"t">>}, data \in SheetData : PutSheet(id, data)
    \/ \E id \in SheetIds : GetSheet(id)

SpecSheets == Init /\ [][NextSheets]_vars

(***************************************************************************)
(* Claims                                                                  *)
(***************************************************************************)
\* p is the storage root or lies under it
Within(p) == p = uploadDir \/ StartsWith(p, uploadDir \o <<"/">>)

\* C1: every Download, Read and Write request is either rejected with 403
\* 'Access denied' or hands only paths inside the storage root to the
\* filesystem, and nothing outside the storage root is created or modified.
C1_Contained ==
    /\ req.op \in {"download", "read", "write"} =>
          \/ res = Json(403, [error |-> <<"Access denied">>]) /\ accessed = {}
          \/ \A p \in accessed : StartsWith(p, uploadDir) /\ Within(p)
    /\ \A p \in DOMAIN disk :
          Within(p) \/ (p \in DOMAIN BaseDisk /\ disk[p] = BaseDisk[p])
    /\ DOMAIN BaseDisk \subseteq DOMAIN disk

\* C1 witness: a Write named ../a was accepted and wrote inside the root
C1_Witness ==
    /\ req.op = "write"
    /\ req.filename = Str(<<".", ".", "/", "a">>)
    /\ res.status = 200
    /\ uploadDir \o <<"/", "a">> \in accessed

\* C2 as stated: a Download of ../../etc/passwd is answered 403 and reads no
\* file, neither /etc/passwd nor a file passwd in the storage root.
C2_Original ==
    (req.op = "download" /\ req.filename = TraversalName) =>
        (res.status = 403 /\ accessed = {})

\* C2 amended: a Download of ../../etc/passwd is never answered 403 and never
\* touches /etc/passwd: it is answered 404 'File not found' when the storage
\* root holds no file passwd, and otherwise sends the stored file passwd.
C2_TraversalDownload ==
    (req.op = "download" /\ req.filename = TraversalName) =>
        LET inside == uploadDir \o <<"/", "passwd">>
        IN  /\ res.status # 403
            /\ accessed = {inside}
            /\ IF inside \in DOMAIN disk
               THEN res = Attachment(disk[inside].data)
               ELSE res = Json(404, [error |-> <<"File not found">>])

\* C2 witness: the download was served from the stored file passwd
C2_Witness ==
    /\ req.op = "download"
    /\ req.filename = TraversalName
    /\ res.type = "attachment"
    /\ res.body.bytes = <<"x">>

\* no surrogate code unit of s is unpaired
WellFormed(s) ==
    \A i \in 1..Len(s) :
        /\ s[i] = "H" => (i < Len(s) /\ s[i + 1] = "L")
        /\ s[i] = "L" => (i > 1 /\ s[i - 1] = "H")

\* C3 as stated: a Read of a name whose last successful Write has not been
\* overwritten returns success with exactly the content written, for any
\* string content.
C3_Original ==
    (req.op = "read" /\ req.filename \in DOMAIN written) =>
        res = Json(200, [success |-> TRUE,
                         content |-> written[req.filename].content])

\* C3 amended: the same for any content that is well-formed Unicode text (no
\* unpaired surrogate code unit), the empty string included.
C3_RoundTrip ==
    (/\ req.op = "read"
     /\ req.filename \in DOMAIN written
     /\ WellFormed(written[req.filename].content)) =>
        res = Json(200, [success |-> TRUE,
                         content |-> written[req.filename].content])

\* C3 witness: a text with a surrogate pair was written and read back
C3_Witness ==
    /\ req.op = "read"
    /\ req.filename \in DOMAIN written
    /\ written[req.filename].content = <<"H", "L">>
    /\ res.status = 200

\* C4: two successful Uploads of the same original filename return
\* different generated filenames, also when both read the same clock value
\* (stated for an Upload directly followed by another).
C4_DistinctNames ==
    [][(/\ req.op = "upload" /\ res.status = 200
        /\ req'.op = "upload" /\ res'.status = 200
        /\ req'.file.originalname = req.file.originalname)
       => res'.body.filename # res.body.filename]_vars

\* the step is the dispatch of a gateway request (not the arrival of a reply)
IsGatewayRequestStep == req'.op = "gateway" /\ upstream' = NoReply
\* the step is the arrival of an upstream reply
IsReplyStep == req'.op = "gateway" /\ upstream' # NoReply

\* C5: a Gateway request whose service is not deepseek, gemini or copilot
\* (a missing service included) is answered 400 'Invalid service' at once and
\* issues no outbound call.
C5_InvalidService ==
    [][(/\ IsGatewayRequestStep
        /\ req'.body.service \notin
              {Str(<<"deepseek">>), Str(<<"gemini">>), Str(<<"copilot">>)})
       => /\ res' = Json(400, [error |-> <<"Invalid service">>])
          /\ outbound' = outbound
          /\ pending' = pending]_vars

\* C5 witness: a request without a service was answered 400
C5_Witness ==
    /\ req.op = "gateway"
    /\ req.body.service = Undefined
    /\ res.status = 400
    /\ outbound = 0

\* the upstream answered with a non-success HTTP status
UpstreamFailed(u) == u.kind = "response" /\ ~u.ok

ExpectedPath(service) ==
    IF service = Str(<<"gemini">>)
    THEN <<"candidates", "0", "content", "parts", "0", "text">>
    ELSE <<"choices", "0", "message", "content">>

\* C7: a success reply that lacks the expected field path at any level (only
\* the final field included) is answered with an error: status 500 and an
\* `error` string, never {success:true}.
C7_Malformed ==
    (/\ upstream.kind = "response" /\ upstream.ok /\ upstream.json
     /\ \E k \in 0..(Len(ExpectedPath(req.body.service)) - 1) :
           upstream.data = Truncated(ExpectedPath(req.body.service), k)) =>
        /\ res.status = 500
        /\ "error" \in DOMAIN res.body
        /\ "success" \notin DOMAIN res.body

\* C8: a success reply carrying the text at the expected field path is
\* answered {success:true, response:T} with T the first choice's message
\* content (the first candidate's first part's text for gemini).
C8_ExtractsText ==
    (upstream.kind = "response" /\ upstream.ok /\ upstream.json) =>
        LET keys == ExpectedPath(req.body.service)
        IN  /\ \A t \in {Str(<<"hello">>), Str(<<>>)} :
                  upstream.data = Nest(keys, t) =>
                     res = Json(200, [success |-> TRUE, response |-> t])
            /\ upstream.data = TwoChoices(keys) =>
                  res = Json(200, [success |-> TRUE, response |-> Str(<<"hello">>)])

\* C8 witness: the gemini scenario of the specification
C8_Witness ==
    /\ req.op = "gateway"
    /\ req.body.service = Str(<<"gemini">>)
    /\ upstream = OkJson(Obj("candidates" :> Arr(<<Obj("content" :>
                     Obj("parts" :> Arr(<<Obj("text" :> Str(<<"hello">>))>>)))>>)))
    /\ res = Json(200, [success |-> TRUE, response |-> Str(<<"hello">>)])

\* C9: a Gateway request with a supported service issues exactly one outbound
\* POST, at its dispatch, whatever was answered before; the arrival of a
\* reply, failed or not, issues none and ends the request; nothing else
\* issues one.
C9_OneCall ==
    [][/\ (IsGatewayRequestStep /\ req'.body.service \in Services) =>
             /\ outbound' = outbound + 1
             /\ Cardinality(DOMAIN pending') = Cardinality(DOMAIN pending) + 1
       /\ ~(IsGatewayRequestStep /\ req'.body.service \in Services) =>
             outbound' = outbound
       /\ IsReplyStep =>
             /\ res' # NoResponse
             /\ Cardinality(DOMAIN pending') = Cardinality(DOMAIN pending) - 1
       /\ \A id \in DOMAIN pending' : Len(pending'[id].calls) = 1]_vars

\* C9 witness: two requests were served, the last after an upstream failure,
\* with two calls in all
C9_Witness ==
    /\ outbound = 2
    /\ pending = <<>>
    /\ UpstreamFailed(upstream)
    /\ res.status = 500

\* the response reports a failure
Failing(r) == r.type # "none" /\ (r.status >= 400 \/ r.type = "html")

\* C10: every failing response of a core endpoint is JSON with an `error`
\* field and a status among 400, 403, 404, 500.
C10_JsonErrors ==
    Failing(res) =>
        /\ res.type = "json"
        /\ "error" \in DOMAIN res.body
        /\ res.status \in {400, 403, 404, 500}

\* C11: for Download and Read the bound check is decided before the
\* existence check: a resolved path that fails the bound check is answered
\* 403 (never 404), and a request that passes it is answered 404 exactly
\* when no file exists at the resolved path (a directory at the resolved
\* path is left to either reading of "file").
C11_BoundBeforeExistence ==
    req.op \in {"download", "read"} =>
        LET filePath == FilePath(basename(req.filename))
        IN  IF ~InsideUploads(filePath)
            THEN res.status = 403
            ELSE /\ ~ExistsSync(disk, filePath) => res.status = 404
                 /\ (ExistsSync(disk, filePath) /\ ~IsDirectory(disk, filePath))
                       => res.status # 404

\* C12: a Write whose filename or content is absent is answered 400
\* 'Filename and content required'; an empty-string content is not absent:
\* with a filename that names a file of the storage root the Write succeeds
\* and leaves an empty file under the sanitized name.
C12_MissingParameters ==
    req.op = "write" =>
        /\ (req.filename = Undefined \/ req.content = Undefined) =>
              res = Json(400, [error |-> <<"Filename and content required">>])
        /\ (/\ IsString(req.filename)
            /\ req.filename.v # <<>>
            /\ req.content = Str(<<>>)) =>
              LET sanitizedFilename == basename(req.filename.v)
                  filePath == FilePath(sanitizedFilename)
              IN  (InsideUploads(filePath) /\ filePath # uploadDir) =>
                      /\ res = Json(200, [success |-> TRUE,
                                          filename |-> sanitizedFilename])
                      /\ filePath \in DOMAIN disk
                      /\ disk[filePath] = File(<<>>)

\* C12 witness: a Write of the empty string over a non-empty file succeeded
\* and the file is empty
C12_Witness ==
    /\ req.op = "write"
    /\ req.filename = Str(<<".", ".", "/", "a">>)
    /\ req.content = Str(<<>>)
    /\ res.status = 200
    /\ disk[uploadDir \o <<"/", "a">>] = File(<<>>)
    /\ uploadDir \o <<"/", "b">> \in DOMAIN disk

\* C13: a request answered with a client-input error (400 for an Upload
\* without a file, a Write with a missing filename or content, a Gateway
\* request with an invalid service) has no side effects: the disk, and with
\* it the storage root and every stored file, is unchanged and no outbound
\* call was made.
C13_NoSideEffects ==
    [][(req'.op \in {"upload", "write", "gateway"} /\ res'.status = 400)
       => /\ disk' = disk
          /\ outbound' = outbound
          /\ pending' = pending]_vars

\* C13 witness: after a gateway call was made, an Upload without a file was
\* answered 400 and the storage root still does not exist
C13_Witness ==
    /\ req.op = "upload"
    /\ res.status = 400
    /\ uploadDir \notin DOMAIN disk
    /\ outbound > 0

\* C14: List on an absent or empty storage root answers 200 {files: []},
\* never an error, and does not create the storage root (the disk is
\* unchanged).
C14_EmptyList ==
    [][(/\ req'.op = "files"
        /\ \/ uploadDir \notin DOMAIN disk
           \/ ReaddirSync(disk, uploadDir) = {})
       => /\ res' = Json(200, [files |-> {}])
          /\ disk' = disk]_vars

\* C14 witness: List answered an empty list and the storage root is absent
C14_Witness ==
    /\ req.op = "files"
    /\ res = Json(200, [files |-> {}])
    /\ uploadDir \notin DOMAIN disk

\* the names List reports for disk d
Listing(d) == IF uploadDir \in DOMAIN d THEN ReaddirSync(d, uploadDir) ELSE {}

\* C15: List returns exactly the names currently stored, which are the
\* names reported by the successful Writes and Uploads so far: a successful
\* Write or Upload adds the name it reports to the listing (once) and leaves
\* the storage root in existence, no other step changes the listing, and
\* List answers the listing.
C15_ListExact ==
    [][/\ (req'.op \in {"write", "upload"} /\ res'.status = 200) =>
             /\ Listing(disk') = Listing(disk) \cup {res'.body.filename}
             /\ uploadDir \in DOMAIN disk'
       /\ ~(req'.op \in {"write", "upload"} /\ res'.status = 200) =>
             Listing(disk') = Listing(disk)
       /\ req'.op = "files" => res' = Json(200, [files |-> Listing(disk')])]_vars

\* C15 witness: List reported a written hidden name and an uploaded name
C15_Witness ==
    /\ req.op = "files"
    /\ res = Json(200, [files |-> {<<".", "a">>, <<"1", "-", "a">>}])

\* C16: no exposed operation deletes a stored file: a name present in the
\* storage root is still present after every step of Upload, Download, Read,
\* Write, List and Gateway (the set of stored names only grows).
C16_NeverDeleted ==
    [][/\ Listing(disk) \subseteq Listing(disk')
       /\ StoredFiles(disk) \subseteq StoredFiles(disk')]_vars

\* C16 witness: two names are stored, a gateway call was made, and a Write
\* over a stored name has just succeeded
C16_Witness ==
    /\ req.op = "write"
    /\ res.status = 200
    /\ Cardinality(Listing(disk)) = 2
    /\ req.filename.v \in DOMAIN written
    /\ outbound > 0

\* the requests of the burst that write the stored name of request i
SameTarget(i) ==
    { j \in DOMAIN writes :
        basename(writes[j].filename.v) = basename(writes[i].filename.v) }

\* C17: concurrent Writes to the same sanitized name are last-write-wins:
\* in every order of handling, once all have been answered each Write
\* reported success and the stored content is exactly the content of the
\* Write to that name that was handled last, never a mixture.
C17_LastWriteWins ==
    (writes # <<>> /\ \A i \in DOMAIN writes : writes[i].phase = "handled") =>
        \A i \in DOMAIN writes :
            LET last == CHOOSE j \in SameTarget(i) :
                            \A k \in SameTarget(i) : writes[k].order <= writes[j].order
                filePath == FilePath(basename(writes[i].filename.v))
            IN  /\ writes[i].status = 200
                /\ filePath \in DOMAIN disk
                /\ disk[filePath] = File(Utf8Encode(writes[last].content.v))

\* C17 witness: two Writes to the same stored name under different raw names
\* and with different contents were in flight together, and the one that
\* arrived first was handled last
C17_Witness ==
    /\ Len(writes) = 2
    /\ writes[1].filename = Str(<<"a">>) /\ writes[1].content = Str(<<"H", "L">>)
    /\ writes[2].filename = Str(<<".", ".", "/", "a">>)
    /\ writes[2].content = Str(<<"x">>)
    /\ writes[1].order = 2 /\ writes[2].order = 1
    /\ disk[uploadDir \o <<"/", "a">>] = File(<<"S">>)

\* C18: Download, Read, List and Gateway are read-only with respect to the
\* storage root and idempotent (the same request again gets the same answer
\* and leaves the same disk); the file store and the gateway share no state:
\* a file store step leaves the gateway's calls alone, a gateway step leaves
\* the disk alone, and a gateway response is determined by the request body
\* and the upstream reply whatever the disk holds.
C18_ReadOnly ==
    [][/\ req'.op \in {"download", "read", "files", "gateway"} => disk' = disk
       /\ req'.op = "download" =>
             DownloadHandler(disk', req'.filename) = Outcome(disk', res', accessed')
       /\ req'.op = "read" =>
             ReadHandler(disk', req'.filename) = Outcome(disk', res', accessed')
       /\ req'.op = "files" => FilesHandler(disk') = Outcome(disk', res', accessed')
       /\ req'.op \in {"download", "read", "files", "write", "upload"} =>
             pending' = pending /\ outbound' = outbound
       /\ IsReplyStep => res' = GatewayReply(req'.body.service, upstream')
       /\ (IsGatewayRequestStep /\ req'.body.service \notin Services) =>
             res' = InvalidService]_vars

\* C18 witness: with two files stored and another gateway call in flight, a
\* gateway request was answered with the upstream text
C18_Witness ==
    /\ req.op = "gateway"
    /\ upstream # NoReply
    /\ res.status = 200
    /\ Cardinality(Listing(disk)) = 2
    /\ pending # <<>>

\* C19: a successful Upload always creates a new name: the generated
\* filename is not the name of a file already in the storage root (made by
\* an earlier Upload or by a Write), so the Upload overwrites nothing and the
\* number of stored files grows by exactly one.
C19_NewName ==
    [][(/\ req'.op = "upload"
        /\ res'.status = 200
        /\ <<req', res', disk'>> # <<req, res, disk>>)
       => /\ res'.body.filename \notin Listing(disk)
          /\ Cardinality(Listing(disk')) = Cardinality(Listing(disk)) + 1]_vars

\* the model named in an outbound call: in the JSON body for the chat
\* endpoints, in the URL for gemini
ModelSent(service, call) ==
    IF service = Gemini THEN call.url[2] ELSE call.body.model

\* the service's fixed default model
DefaultModel(service) ==
    IF service = DeepSeek THEN Str(<<"deepseek-chat">>)
    ELSE IF service = Gemini THEN Str(<<"gemini-pro">>)
    ELSE Str(<<"gpt-4">>)

\* C20: the model sent upstream is the request's model when one is supplied
\* and otherwise the service's fixed default, for every way of not supplying
\* it in the JSON body (field omitted, null, empty string).
C20_DefaultModel ==
    \A id \in DOMAIN pending :
        LET body == pending[id].body
            supplied == body.model \notin {Undefined, Null, Str(<<>>)}
        IN  \A k \in DOMAIN pending[id].calls :
                ModelSent(body.service, pending[id].calls[k]) =
                    IF supplied THEN body.model ELSE DefaultModel(body.service)

\* the fixed URL of a chat endpoint
ChatUrl(service) ==
    IF service = DeepSeek
    THEN <<"https://api.deepseek.com/v1/chat/completions">>
    ELSE <<"https://api.openai.com/v1/chat/completions">>

\* C21: the apiKey goes upstream by one convention per provider: for
\* deepseek and copilot as the header Authorization: Bearer <apiKey> and the
\* URL is the fixed endpoint (no key in it); for gemini as the `key` query
\* parameter of the URL with no Authorization header; the outbound body
\* carries the prompt as the sole user message (content part).
C21_KeyConvention ==
    \A id \in DOMAIN pending :
        LET body == pending[id].body
        IN  \A k \in DOMAIN pending[id].calls :
                LET call == pending[id].calls[k]
                IN  /\ call.method = "POST"
                    /\ body.service \in {DeepSeek, Copilot} =>
                          /\ call.authorization = <<"Bearer ", body.apiKey>>
                          /\ call.url = ChatUrl(body.service)
                          /\ call.body.messages =
                                <<[role |-> "user", content |-> body.prompt]>>
                    /\ body.service = Gemini =>
                          /\ call.authorization = <<>>
                          /\ Len(call.url) = 4
                          /\ call.url[3] = ":generateContent?key="
                          /\ call.url[4] = body.apiKey
                          /\ call.body = [contents |->
                                <<[parts |-> <<[text |-> body.prompt]>>]>>]

\* C21 witness: a gemini call and a copilot call are in flight together
C21_Witness ==
    /\ Cardinality(DOMAIN pending) = 2
    /\ \E id \in DOMAIN pending : pending[id].body.service = Gemini
    /\ \E id \in DOMAIN pending : pending[id].body.service = Copilot

\* C22: every accepted request eventually receives its response, whatever
\* the upstream does: a gateway request that awaits its outbound call is
\* eventually answered.
C22_EventuallyAnswered ==
    \A id \in 1..MaxPending :
        (id \in DOMAIN pending) ~> (id \notin DOMAIN pending)

\* C23: a successful Write leaves under the sanitized name exactly the new
\* content, whatever the file held before, and returns as filename the
\* sanitized name actually used: the final path segment of the requested
\* filename, with no path separator in it.
C23_Overwrites ==
    (req.op = "write" /\ res.status = 200) =>
        LET name == res.body.filename
            segs == Split(StripTrailingSlashes(req.filename.v))
        IN  /\ \A i \in DOMAIN name : name[i] # "/"
            /\ name = segs[Len(segs)]
            /\ uploadDir \o <<"/">> \o name \in DOMAIN disk
            /\ disk[uploadDir \o <<"/">> \o name] = File(Utf8Encode(req.content.v))

\* C23 witness: a Write of a one-character text under ../a succeeded over the
\* two-unit content written under a before it; the file holds the new text only
C23_Witness ==
    /\ Len(writes) = 2
    /\ writes[1].filename = Str(<<"a">>) /\ writes[1].content = Str(<<"H", "L">>)
    /\ writes[1].order = 1 /\ writes[2].order = 2
    /\ req.op = "write"
    /\ req.filename = Str(<<".", ".", "/", "a">>)
    /\ req.content = Str(<<"x">>)
    /\ res = Json(200, [success |-> TRUE, filename |-> <<"a">>])
    /\ disk[uploadDir \o <<"/", "a">>] = File(<<"x">>)

\* C24: the /api endpoints are rate limited to 30 requests per minute per
\* client IP: within a one-minute window the handlers run for at most 30
\* requests of one IP.
C24_RateLimited == \A ip \in ClientIps : hits[ip] <= RateLimit

\* C25: every Download, Read or Write that is not answered 400 or 403
\* targets a direct child entry of the storage root, never the storage root
\* itself: a filename whose final segment is "." or empty does not resolve to
\* the root directory and does not make the handler fail on a directory.
C25_DirectChild ==
    (/\ req.op \in {"download", "read", "write"}
     /\ req.op = "write" => IsString(req.filename)
     /\ res.status \notin {400, 403}) =>
        LET name == IF req.op = "write" THEN req.filename.v ELSE req.filename
            filePath == FilePath(basename(name))
        IN  /\ filePath # uploadDir
            /\ filePath = uploadDir \o <<"/">> \o basename(name)
            /\ ~IsDirectory(disk, filePath)

\* the final path segment of a requested filename
FinalSegment(name) ==
    LET segs == Split(StripTrailingSlashes(name)) IN segs[Len(segs)]

\* C26: the file namespace is keyed by the final path segment only: a Read
\* of a name returns the (well-formed) content written last under any
\* requested filename with the same final segment, and a successful Write
\* leaves the file of every other final segment as it was.
C26_KeyedByBasename ==
    [][/\ req'.op = "read" =>
             \A f \in DOMAIN written' :
                 (/\ FinalSegment(f) = FinalSegment(req'.filename)
                  /\ WellFormed(written'[f].content)) =>
                     res' = Json(200, [success |-> TRUE,
                                       content |-> written'[f].content])
       /\ \A f, g \in DOMAIN written' :
             FinalSegment(f) = FinalSegment(g) => f = g
       /\ (req'.op = "write" /\ res'.status = 200) =>
             \A p \in DOMAIN disk :
                 p # uploadDir \o <<"/">> \o FinalSegment(req'.filename.v) =>
                     p \in DOMAIN disk' /\ disk'[p] = disk[p]]_vars

\* C26 witness: after a Write under ../a, a Read of a returned its content
\* while the file b written before still holds its own
C26_Witness ==
    /\ req.op = "read"
    /\ req.filename = <<"a">>
    /\ DOMAIN written = {<<".", ".", "/", "a">>, <<"b">>}
    /\ written[<<".", ".", "/", "a">>].content = <<"x", "x">>
    /\ res = Json(200, [success |-> TRUE, content |-> <<"x", "x">>])
    /\ disk[uploadDir \o <<"/", "b">>] = File(<<"x">>)

\* C27: a Read or a Download under the filename an Upload returned, not
\* overwritten since, succeeds and returns the uploaded content; so does the
\* Read the browser client issues with the returned filename after its upload.
C27_ReadsUpload ==
    LET returned == IF "returned" \in DOMAIN req THEN req.returned
                    ELSE req.filename
    IN  (req.op \in {"read", "download"} /\ returned \in DOMAIN uploaded) =>
            IF req.op = "read"
            THEN res = Json(200, [success |-> TRUE, content |-> uploaded[returned]])
            ELSE res = Attachment(uploaded[returned])

\* C28: in the browser chat, once the reply or a fetch error arrives the
\* 'Thinking...' placeholder is the element removed and the user's own
\* message stays: every prompt sent keeps its user message, and exactly the
\* prompts in flight have a placeholder.
C28_PlaceholderRemoved ==
    /\ Len(SelectSeq(chat.messages, LAMBDA m : m.role = "user")) = chat.sent
    /\ Len(SelectSeq(chat.messages,
                     LAMBDA m : m.role = "assistant" /\ m.content = Thinking))
          = Len(chat.asking)

\* C29: the debounced refresh runs only after DebounceWait milliseconds
\* without a change and shows the editor's content, it runs at most once per
\* quiet period, a change while a refresh is pending puts the refresh off to
\* DebounceWait milliseconds after that change, and once the changes stop
\* the preview comes to show the editor's final content with no refresh
\* pending.
C29_Debounced ==
    /\ [][/\ (preview.loaded /\ preview'.refreshes > preview.refreshes) =>
                /\ preview.quiet >= DebounceWait
                /\ preview'.refreshes = 1
                /\ preview'.shown = preview.content
                /\ preview'.content = preview.content
          /\ (preview.loaded /\ preview'.changes > preview.changes) =>
                /\ preview'.timer = [set |-> TRUE, left |-> DebounceWait]
                /\ preview'.quiet = 0]_vars
    /\ [](preview.loaded =>
            <>[](/\ preview.loaded
                 /\ ~preview.timer.set
                 /\ preview.shown = preview.content))

\* C29 witness: two changes came while the first refresh was pending, and
\* the one refresh of the quiet period has shown the final content
C29_Witness ==
    /\ preview.loaded
    /\ preview.changes = 2
    /\ preview.refreshes = 1
    /\ preview.quiet >= DebounceWait
    /\ ~preview.timer.set
    /\ preview.content = <<"h">>
    /\ preview.shown = <<"h">>

\* C30: a GET of a data sheet id stored by POST or PUT answers
\* {success:true, data} with the value stored last for that id, whatever the
\* value the request body carried as data; 404 'Data sheet not found' is
\* answered only for ids never stored.
C30_RoundTrip ==
    req.op = "getSheet" =>
        IF req.id \in DOMAIN dataSheets /\ dataSheets[req.id] # Undefined
        THEN res = Json(200, [success |-> True, data |-> dataSheets[req.id]])
        ELSE TRUE

====
